---- MODULE Spec2Model ----
(***************************************************************************)
(* Family tree explorer ("FamilyTree Project/Main Project.py").            *)
(*                                                                         *)
(* Persons are object identities 1..n; None is 0.  A person's _parents and *)
(* _children are Python lists, modelled as sequences of identities.  Every *)
(* list handed to set_parents / set_children is a fresh list, so no two    *)
(* fields ever share a list object and value semantics are exact.          *)
(*                                                                         *)
(* A list built from a Python set (list(s), or a comprehension over s) has *)
(* an iteration order the language does not fix: such a method is modelled *)
(* by the set of lists it may return.                                      *)
(***************************************************************************)
EXTENDS Integers, Sequences, FiniteSets, TLC

\* Bounds of the explored runs.
NPersons == 3       \* persons constructed in Spec
MaxArgLen == 2      \* longest list handed to set_parents / set_children
MaxCalls == 2       \* mutating calls in a run of Spec
NTree == 5          \* persons constructed in SpecTree

None == 0

VARIABLES cast,                          \* the persons as constructed
          parents, children, spouse,     \* PersonBase links
          members,                       \* FamilyTree.members
          pc,                            \* position in the script
          last,                          \* the last call made
          result,                        \* what the last query returned
          ncalls, calls                  \* calls made so far, in all and per person

vars == <<cast, parents, children, spouse, members, pc, last, result, ncalls, calls>>

links == <<parents, children, spouse>>
graph == <<parents, children, spouse, members>>

People == DOMAIN parents

\* The attributes a constructor sets; no method assigns them.
cls(p) == cast[p].cls
name(p) == cast[p].name
birth_date(p) == cast[p].birth_date
death_date(p) == cast[p].death_date

-----------------------------------------------------------------------------
(* Python values *)

Range(s) == {s[i] : i \in DOMAIN s}

Count(x, s) == Cardinality({i \in DOMAIN s : s[i] = x})

NoDuplicates(s) == \A i, j \in DOMAIN s : i # j => s[i] # s[j]

date(y, m, d) == [year |-> y, month |-> m, day |-> d]

IsLeap(y) == (y % 4 = 0) /\ ((y % 100 # 0) \/ (y % 400 = 0))

DaysInMonth(y, m) ==
    IF m = 2 THEN (IF IsLeap(y) THEN 29 ELSE 28)
    ELSE IF m \in {4, 6, 9, 11} THEN 30 ELSE 31

RECURSIVE DaysBeforeMonth(_, _)
DaysBeforeMonth(y, m) ==
    IF m = 1 THEN 0 ELSE DaysBeforeMonth(y, m - 1) + DaysInMonth(y, m - 1)

\* date.toordinal(): days since 0001-01-01, proleptic Gregorian.
Ordinal(d) ==
    LET y == d.year - 1
    IN  (y * 365) + (y \div 4) - (y \div 100) + (y \div 400)
        + DaysBeforeMonth(d.year, d.month) + d.day

\* (a - b).days
DaysBetween(a, b) == Ordinal(a) - Ordinal(b)

Pad(n, width) ==
    IF width = 4
    THEN (IF n < 10 THEN "000" ELSE IF n < 100 THEN "00" ELSE IF n < 1000 THEN "0" ELSE "")
         \o ToString(n)
    ELSE (IF n < 10 THEN "0" ELSE "") \o ToString(n)

\* str(date): ISO format.
DateStr(d) == Pad(d.year, 4) \o "-" \o Pad(d.month, 2) \o "-" \o Pad(d.day, 2)

\* a / b on numbers, kept exact as the pair <<a, b>>.
TrueDiv(a, b) == <<a, b>>

\* list(s) for a set s: any order.
RECURSIVE ListOf(_)
ListOf(S) ==
    IF S = {} THEN {<<>>}
    ELSE UNION {{<<x>> \o t : t \in ListOf(S \ {x})} : x \in S}

\* dict as a sequence of [k, v] in insertion order.
DictKeys(d) == {d[i].k : i \in DOMAIN d}

DictGet(d, key, default) ==
    IF key \in DictKeys(d)
    THEN d[CHOOSE i \in DOMAIN d : d[i].k = key].v
    ELSE default

DictSet(d, key, val) ==
    IF key \in DictKeys(d)
    THEN [i \in DOMAIN d |-> IF d[i].k = key THEN [k |-> key, v |-> val] ELSE d[i]]
    ELSE Append(d, [k |-> key, v |-> val])

DictValues(d) == [i \in DOMAIN d |-> d[i].v]

-----------------------------------------------------------------------------
(* PersonBase, LivingPerson, DeceasedPerson *)

LivingPerson(n, b) ==
    [cls |-> "LivingPerson", name |-> n, birth_date |-> b, death_date |-> None]

DeceasedPerson(n, b, d) ==
    [cls |-> "DeceasedPerson", name |-> n, birth_date |-> b, death_date |-> d]

\* The state after constructing `persons` (a sequence of constructor calls)
\* and FamilyTree().
Constructed(persons) ==
    /\ cast = persons
    /\ parents = [p \in DOMAIN cast |-> <<>>]
    /\ children = [p \in DOMAIN cast |-> <<>>]
    /\ spouse = [p \in DOMAIN cast |-> None]
    /\ members = <<>>
    /\ last = [op |-> "init", self |-> None, arg |-> <<>>, key |-> ""]
    /\ result = None
    /\ ncalls = 0
    /\ calls = [p \in DOMAIN cast |-> [set_parents |-> 0, set_children |-> 0]]

\* for x in lst: f[x].append(self)
RECURSIVE AppendToEach(_, _, _, _)
AppendToEach(f, lst, i, self) ==
    IF i > Len(lst) THEN f
    ELSE AppendToEach([f EXCEPT ![lst[i]] = Append(@, self)], lst, i + 1, self)

\* for x in lst: if self not in f[x]: f[x].append(self)
RECURSIVE AppendToEachOnce(_, _, _, _)
AppendToEachOnce(f, lst, i, self) ==
    IF i > Len(lst) THEN f
    ELSE AppendToEachOnce(
            [f EXCEPT ![lst[i]] = IF self \in Range(@) THEN @ ELSE Append(@, self)],
            lst, i + 1, self)

\* set_parents that skips a back-link already present.
set_parents_guarded(self, P) ==
    /\ parents' = [parents EXCEPT ![self] = P]
    /\ children' = AppendToEachOnce(children, P, 1, self)

\* set_parents that forgets the back-links.
set_parents_unlinked(self, P) ==
    /\ parents' = [parents EXCEPT ![self] = P]
    /\ children' = children

set_parents(self, P) ==
    /\ parents' = [parents EXCEPT ![self] = P]
    /\ children' = AppendToEach(children, P, 1, self)

\* set_children that appends the back-link to the child's children.
set_children_miswired(self, C) ==
    /\ children' = AppendToEach([children EXCEPT ![self] = C], C, 1, self)
    /\ parents' = parents

set_children(self, C) ==
    /\ children' = [children EXCEPT ![self] = C]
    /\ parents' = AppendToEach(parents, C, 1, self)

\* the spouse setter: self.spouse = other
set_spouse(self, other) ==
    spouse' = [[spouse EXCEPT ![self] = other] EXCEPT ![other] = self]

display_details(p) ==
    IF cls(p) = "LivingPerson"
    THEN "Name: " \o name(p) \o ", Birth Date: " \o DateStr(birth_date(p)) \o " (Alive)"
    ELSE "Name: " \o name(p) \o ", Birth Date: " \o DateStr(birth_date(p))
         \o ", Death Date: " \o DateStr(death_date(p))

-----------------------------------------------------------------------------
(* FamilyTree *)

get_person(n) == DictGet(members, n, None)

get_member_details(n) ==
    LET person == get_person(n)
    IN  IF person # None THEN display_details(person) ELSE "Person not found."

find_parents(p) == parents[p]

RECURSIVE ExtendEach(_, _, _)
\* acc = []; for x in lst: acc.extend(f[x])
ExtendEach(f, lst, i) ==
    IF i > Len(lst) THEN <<>> ELSE f[lst[i]] \o ExtendEach(f, lst, i + 1)

find_grandparents(p) == ExtendEach(parents, parents[p], 1)

\* The set `siblings` once every parent's children are added, line 110.
siblings_all(p) == UNION {Range(children[parents[p][i]]) : i \in DOMAIN parents[p]}

\* find_siblings without the discard.
find_siblings_keep_self(p) == ListOf(siblings_all(p))

find_siblings(p) == ListOf(siblings_all(p) \ {p})

RECURSIVE CousinsFrom(_, _)
\* The lists `cousins` may hold after the parents from index i on are done.
CousinsFrom(p, i) ==
    IF i > Len(parents[p]) THEN {<<>>}
    ELSE {ExtendEach(children, sibs, 1) \o rest :
            sibs \in find_siblings(parents[p][i]), rest \in CousinsFrom(p, i + 1)}

RECURSIVE CousinsFromKeepParent(_, _)
CousinsFromKeepParent(p, i) ==
    IF i > Len(parents[p]) THEN {<<>>}
    ELSE {ExtendEach(children, sibs, 1) \o rest :
            sibs \in find_siblings_keep_self(parents[p][i]),
            rest \in CousinsFromKeepParent(p, i + 1)}

\* find_cousins that takes a parent for one of its own siblings.
find_cousins_keep_parent(p) == CousinsFromKeepParent(p, 1)

find_cousins(p) == CousinsFrom(p, 1)

\* The set `immediate_family`, line 127.
immediate_family(p) ==
    Range(parents[p])
    \cup UNION {Range(sibs) : sibs \in find_siblings(p)}
    \cup (IF spouse[p] # None THEN {spouse[p]} ELSE {})
    \cup Range(children[p])

find_immediate_family(p) == ListOf(immediate_family(p))

\* The set `extended_family`, line 136.
extended_family(p) ==
    UNION {Range(fam) : fam \in find_immediate_family(p)}
    \cup UNION {Range(sibs) \cup UNION {Range(children[s]) : s \in Range(sibs)} :
                    sibs \in UNION {find_siblings(q) : q \in Range(parents[p])}}

\* find_extended_family without the filter on LivingPerson.
find_extended_family_unfiltered(p) == ListOf(extended_family(p))

find_extended_family(p) ==
    ListOf({member \in extended_family(p) : cls(member) = "LivingPerson"})

\* Keys (month, day) in sorted order.
RECURSIVE SortedKeys(_)
SortedKeys(K) ==
    IF K = {} THEN <<>>
    ELSE LET least == CHOOSE a \in K : \A b \in K :
                        (a[1] < b[1]) \/ (a[1] = b[1] /\ a[2] <= b[2])
         IN  <<least>> \o SortedKeys(K \ {least})

RECURSIVE NamesBornOn(_, _, _)
NamesBornOn(vals, i, key) ==
    IF i > Len(vals) THEN <<>>
    ELSE (IF <<birth_date(vals[i]).month, birth_date(vals[i]).day>> = key
          THEN <<name(vals[i])>> ELSE <<>>) \o NamesBornOn(vals, i + 1, key)

get_birthdays_calendar ==
    LET vals == DictValues(members)
        keys == SortedKeys({<<birth_date(vals[i]).month, birth_date(vals[i]).day>> :
                                i \in DOMAIN vals})
    IN  [i \in DOMAIN keys |-> [k |-> keys[i], v |-> NamesBornOn(vals, 1, keys[i])]]

RECURSIVE AgesAtDeath(_, _)
\* <<total_age, count>> over vals[i..]
AgesAtDeath(vals, i) ==
    IF i > Len(vals) THEN <<0, 0>>
    ELSE LET rest == AgesAtDeath(vals, i + 1)
             person == vals[i]
         IN  IF cls(person) = "DeceasedPerson"
             THEN <<rest[1] + (DaysBetween(death_date(person), birth_date(person)) \div 365),
                    rest[2] + 1>>
             ELSE rest

calculate_average_age ==
    LET acc == AgesAtDeath(DictValues(members), 1)
    IN  IF acc[2] > 0 THEN TrueDiv(acc[1], acc[2]) ELSE 0

RECURSIVE ChildrenData(_, _, _)
ChildrenData(vals, i, data) ==
    IF i > Len(vals) THEN data
    ELSE ChildrenData(vals, i + 1, DictSet(data, name(vals[i]), Len(children[vals[i]])))

RECURSIVE TotalChildren(_, _)
TotalChildren(vals, i) ==
    IF i > Len(vals) THEN 0 ELSE Len(children[vals[i]]) + TotalChildren(vals, i + 1)

calculate_children_statistics ==
    LET vals == DictValues(members)
        num_people == Len(members)
        total_children == TotalChildren(vals, 1)
    IN  <<ChildrenData(vals, 1, <<>>),
          IF num_people > 0 THEN TrueDiv(total_children, num_people) ELSE 0>>

\* family_tree.members = {p.name: p, ...} for the persons of lst, in order
RECURSIVE DictOf(_, _, _)
DictOf(lst, i, d) ==
    IF i > Len(lst) THEN d ELSE DictOf(lst, i + 1, DictSet(d, name(lst[i]), lst[i]))

-----------------------------------------------------------------------------
(* The calls of a run *)

Call(op, self, arg, key) ==
    last' = [op |-> op, self |-> self, arg |-> arg, key |-> key]

\* A query: it returns res and assigns nothing.
Returns(op, self, key, res) ==
    /\ Call(op, self, <<>>, key)
    /\ result' = res
    /\ UNCHANGED <<cast, links, members, pc, ncalls, calls>>

QueryOps ==
    {"get_person", "get_member_details", "find_parents", "find_grandparents",
     "find_siblings", "find_cousins", "find_immediate_family",
     "find_extended_family", "get_birthdays_calendar", "calculate_average_age",
     "calculate_children_statistics"}

\* Names a caller may ask for: every person's name, and one nobody bears.
NameInputs == {name(p) : p \in People} \cup {"Nobody"}

\* A lookup through a defaultdict: a missing key is inserted.
GetPersonInserting(n) ==
    /\ Call("get_person", None, <<>>, n)
    /\ result' = get_person(n)
    /\ members' = DictSet(members, n, get_person(n))
    /\ UNCHANGED <<cast, links, pc, ncalls, calls>>

GetPerson(n) == Returns("get_person", None, n, get_person(n))

GetMemberDetails(n) == Returns("get_member_details", None, n, get_member_details(n))

FindParents(p) == Returns("find_parents", p, "", find_parents(p))

FindGrandparents(p) == Returns("find_grandparents", p, "", find_grandparents(p))

FindSiblings(p) == \E r \in find_siblings(p) : Returns("find_siblings", p, "", r)

FindCousins(p) == \E r \in find_cousins(p) : Returns("find_cousins", p, "", r)

\* find_immediate_family that collects into person.parents itself.
FindImmediateFamilyInPlace(p) ==
    \E r \in find_immediate_family(p) :
        /\ Call("find_immediate_family", p, <<>>, "")
        /\ result' = r
        /\ parents' = [parents EXCEPT ![p] = r]
        /\ UNCHANGED <<cast, children, spouse, members, pc, ncalls, calls>>

FindImmediateFamily(p) ==
    \E r \in find_immediate_family(p) : Returns("find_immediate_family", p, "", r)

FindExtendedFamily(p) ==
    \E r \in find_extended_family(p) : Returns("find_extended_family", p, "", r)

GetBirthdaysCalendar == Returns("get_birthdays_calendar", None, "", get_birthdays_calendar)

CalculateAverageAge == Returns("calculate_average_age", None, "", calculate_average_age)

CalculateChildrenStatistics ==
    Returns("calculate_children_statistics", None, "", calculate_children_statistics)

-----------------------------------------------------------------------------
(* The statements that build the graph *)

\* x.set_parents(P)
DoSetParents(x, P) ==
    /\ set_parents(x, P)
    /\ Call("set_parents", x, P, "")
    /\ result' = None
    /\ calls' = [calls EXCEPT ![x].set_parents = @ + 1]
    /\ UNCHANGED <<cast, spouse, members>>

\* x.set_children(C)
DoSetChildren(x, C) ==
    /\ set_children(x, C)
    /\ Call("set_children", x, C, "")
    /\ result' = None
    /\ calls' = [calls EXCEPT ![x].set_children = @ + 1]
    /\ UNCHANGED <<cast, spouse, members>>

\* x.spouse = y
DoSetSpouse(x, y) ==
    /\ set_spouse(x, y)
    /\ Call("spouse", x, <<y>>, "")
    /\ result' = None
    /\ UNCHANGED <<cast, parents, children, members, calls>>

\* family_tree.members = {p.name: p for the persons of lst}
DoLoadRegistry(lst) ==
    /\ members' = DictOf(lst, 1, <<>>)
    /\ Call("load", None, lst, "")
    /\ result' = None
    /\ UNCHANGED <<cast, links, calls>>

\* The persons of Spec and SpecTree: odd ones living, even ones deceased.
FixtureCast(n) ==
    [i \in 1..n |->
        IF i % 2 = 1
        THEN LivingPerson("P" \o ToString(i), date(1990 + i, ((5 * i) % 12) + 1, 10 + i))
        ELSE DeceasedPerson("P" \o ToString(i), date(1940 + i, ((5 * i) % 12) + 1, 10 + i),
                            date(2000 + i, 1, 20 - i))]

RECURSIVE InOrder(_)
InOrder(S) ==
    IF S = {} THEN <<>>
    ELSE LET first == CHOOSE x \in S : \A y \in S : x <= y
         IN  <<first>> \o InOrder(S \ {first})

\* Lists of at most MaxArgLen distinct persons of S, in construction order
\* (the order the seed's lists have).
ArgLists(S) == {InOrder(T) : T \in {T \in SUBSET S : Cardinality(T) <= MaxArgLen}}

-----------------------------------------------------------------------------
(* Spec: any run of set_parents, set_children and spouse assignments *)

Persons == 1..NPersons

LinkArgs == ArgLists(Persons)

Init ==
    /\ Constructed(FixtureCast(NPersons))
    /\ pc = "main"

SetParents(x, P) ==
    /\ pc = "main"
    /\ ncalls < MaxCalls
    /\ DoSetParents(x, P)
    /\ ncalls' = ncalls + 1
    /\ UNCHANGED pc

SetChildren(x, C) ==
    /\ pc = "main"
    /\ ncalls < MaxCalls
    /\ DoSetChildren(x, C)
    /\ ncalls' = ncalls + 1
    /\ UNCHANGED pc

SetSpouse(x, y) ==
    /\ pc = "main"
    /\ ncalls < MaxCalls
    /\ DoSetSpouse(x, y)
    /\ ncalls' = ncalls + 1
    /\ UNCHANGED pc

Next ==
    \/ \E x \in Persons, P \in LinkArgs : SetParents(x, P)
    \/ \E x \in Persons, C \in LinkArgs : SetChildren(x, C)
    \/ \E x \in Persons, y \in Persons : SetSpouse(x, y)

Spec == Init /\ [][Next]_vars

-----------------------------------------------------------------------------
(* SpecTree: family trees built the way the seed is.  Person x = 1, 2, ...  *)
(* in turn calls set_parents with persons constructed before it, so the    *)
(* links are acyclic, mutual and free of repeats; then one couple may wed. *)

TreePersons == 1..NTree

\* A person is given at most two parents.
TreeArgs == {P \in ArgLists(TreePersons) : Len(P) <= 2}

InitTree ==
    /\ Constructed(FixtureCast(NTree))
    /\ pc = "build"

TreeSetParents(P) ==
    LET x == ncalls + 1
    IN  /\ pc = "build"
        /\ \A i \in DOMAIN P : P[i] < x
        /\ DoSetParents(x, P)
        /\ ncalls' = x
        /\ pc' = IF x = NTree THEN "wed" ELSE "build"

TreeSetSpouse(x, y) ==
    /\ pc = "wed"
    /\ x < y
    /\ DoSetSpouse(x, y)
    /\ pc' = "done"
    /\ UNCHANGED ncalls

NextTree ==
    \/ \E P \in TreeArgs : TreeSetParents(P)
    \/ \E x \in TreePersons, y \in TreePersons : TreeSetSpouse(x, y)

SpecTree == InitTree /\ [][NextTree]_vars

-----------------------------------------------------------------------------
(* SpecSeed: the seed dataset, lines 174-203, and the FamilyTree methods   *)
(* called on it.                                                           *)

cornelia == 1
otto == 2
anna == 3
raj == 4
maria == 5
hans == 6
child1 == 7
child2 == 8

SeedCast ==
    << LivingPerson("Cornelia Emmersohn", date(1968, 5, 20)),
       DeceasedPerson("Otto Emmersohn", date(1965, 8, 15), date(2020, 4, 10)),
       DeceasedPerson("Anna Singh", date(1945, 4, 10), date(2015, 3, 20)),
       DeceasedPerson("Raj Singh", date(1942, 6, 5), date(2010, 11, 5)),
       DeceasedPerson("Maria MÃ¼ller", date(1943, 6, 5), date(2005, 9, 15)),
       DeceasedPerson("Hans Emmersohn", date(1940, 3, 22), date(2012, 7, 10)),
       LivingPerson("Lucas Emmersohn", date(1992, 11, 12)),
       LivingPerson("Emma Emmersohn", date(1995, 2, 28)) >>

InitSeed ==
    /\ Constructed(SeedCast)
    /\ pc = "L184"

SeedCorneliaParents ==
    /\ pc = "L184"
    /\ DoSetParents(cornelia, <<anna, raj>>)
    /\ pc' = "L185"
    /\ UNCHANGED ncalls

SeedOttoParents ==
    /\ pc = "L185"
    /\ DoSetParents(otto, <<maria, hans>>)
    /\ pc' = "L187"
    /\ UNCHANGED ncalls

SeedCorneliaChildren ==
    /\ pc = "L187"
    /\ DoSetChildren(cornelia, <<child1, child2>>)
    /\ pc' = "L188"
    /\ UNCHANGED ncalls

SeedOttoChildren ==
    /\ pc = "L188"
    /\ DoSetChildren(otto, <<child1, child2>>)
    /\ pc' = "L191"
    /\ UNCHANGED ncalls

SeedSpouse ==
    /\ pc = "L191"
    /\ DoSetSpouse(cornelia, otto)
    /\ pc' = "L194"
    /\ UNCHANGED ncalls

SeedRegistry ==
    /\ pc = "L194"
    /\ DoLoadRegistry(<<cornelia, otto, anna, raj, maria, hans, child1, child2>>)
    /\ pc' = "menu"
    /\ UNCHANGED ncalls

NextSeed ==
    \/ SeedCorneliaParents
    \/ SeedOttoParents
    \/ SeedCorneliaChildren
    \/ SeedOttoChildren
    \/ SeedSpouse
    \/ SeedRegistry
    \/ \E n \in NameInputs : GetPerson(n)
    \/ \E n \in NameInputs : GetMemberDetails(n)
    \/ \E p \in People : FindParents(p)
    \/ \E p \in People : FindGrandparents(p)
    \/ \E p \in People : FindSiblings(p)
    \/ \E p \in People : FindCousins(p)
    \/ \E p \in People : FindImmediateFamily(p)
    \/ \E p \in People : FindExtendedFamily(p)
    \/ GetBirthdaysCalendar
    \/ CalculateAverageAge
    \/ CalculateChildrenStatistics

SpecSeed == InitSeed /\ [][NextSeed]_vars

-----------------------------------------------------------------------------
(* Relationships read off the links, for stating the claims *)

ParentsOf(p) == Range(parents[p])

ChildrenOf(p) == Range(children[p])

SpouseOf(p) == IF spouse[p] # None THEN {spouse[p]} ELSE {}

\* Everyone else listed as a child of a parent of p.
SiblingsOf(p) == {s \in People \ {p} : \E q \in ParentsOf(p) : s \in ChildrenOf(q)}

ImmediateRelatives(p) ==
    ParentsOf(p) \cup SiblingsOf(p) \cup SpouseOf(p) \cup ChildrenOf(p)

AuntsUncles(p) == UNION {SiblingsOf(q) : q \in ParentsOf(p)}

CousinsOf(p) == UNION {ChildrenOf(s) : s \in AuntsUncles(p)}

Living(S) == {m \in S : cls(m) = "LivingPerson"}

Deceased(S) == {m \in S : cls(m) = "DeceasedPerson"}

SharesParent(a, b) == ParentsOf(a) \cap ParentsOf(b) # {}

RECURSIVE AncestorsWithin(_, _)
AncestorsWithin(S, k) ==
    IF k = 0 THEN S
    ELSE AncestorsWithin(S \cup UNION {ParentsOf(q) : q \in S}, k - 1)

Ancestors(p) == AncestorsWithin(ParentsOf(p), Cardinality(People))

\* a is in b.parents exactly when b is in a.children; no list repeats an
\* entry; nobody is their own ancestor; nobody has more than two parents.
WellFormed ==
    /\ \A a, b \in People : (a \in ParentsOf(b)) <=> (b \in ChildrenOf(a))
    /\ \A p \in People : NoDuplicates(parents[p]) /\ NoDuplicates(children[p])
    /\ \A p \in People : p \notin Ancestors(p)
    /\ \A p \in People : Len(parents[p]) <= 2

\* No child of one sibling shares a parent with a child of the other: two
\* siblings have no child together, and nobody has children with both.
SiblingsChildrenUnrelated ==
    \A q, s \in People :
        (q # s /\ SharesParent(q, s))
            => \A a \in ChildrenOf(q), b \in ChildrenOf(s) : ~SharesParent(a, b)

-----------------------------------------------------------------------------
(* Claims checked under Spec *)

\* C1 (as claimed): while set_parents and set_children have each been called
\* at most once on any person, every person is listed among the children of
\* each of its parents.
BackLinkInvariant ==
    (\A p \in People : calls[p].set_parents <= 1 /\ calls[p].set_children <= 1)
        => \A p \in People : \A q \in ParentsOf(p) : p \in ChildrenOf(q)

\* C2 (as claimed): whoever has a spouse is the spouse of that spouse.
SpouseSymmetry ==
    \A p \in People : spouse[p] # None => spouse[spouse[p]] = p

\* C5: no list find_siblings(p) may return holds p, or any person twice.
SiblingsExcludeSelfAndRepeats ==
    \A p \in People : \A sibs \in find_siblings(p) :
        p \notin Range(sibs) /\ NoDuplicates(sibs)

\* C5 witness: a parent of p lists p and, twice, another child y; y is
\* returned as the one sibling of p.
SiblingListedTwiceReturnedOnce ==
    \E p \in People : \E q \in ParentsOf(p) : \E y \in People \ {p} :
        /\ p \in ChildrenOf(q)
        /\ Count(y, children[q]) > 1
        /\ find_siblings(p) = {<<y>>}

\* C8: a set_parents(P) call on a person x whose parents already are P
\* leaves x.parents equal to P and appends x once more to the children of
\* every parent in P, whose child count so grows by one.
RepeatedSetParentsAppends ==
    [][(/\ last'.op = "set_parents"
        /\ calls[last'.self].set_parents >= 1
        /\ parents[last'.self] = last'.arg)
        => LET x == last'.self
               P == last'.arg
           IN  /\ parents'[x] = P
               /\ \A q \in Range(P) :
                    /\ Count(x, children'[q]) = Count(x, children[q]) + 1
                    /\ Len(children'[q]) = Len(children[q]) + 1]_vars

\* C8 witness: the second x.set_parents(P) has run; x is listed twice by
\* each of its parents.
ListedTwiceAfterSecondCall ==
    /\ last.op = "set_parents"
    /\ calls[last.self].set_parents = 2
    /\ last.arg # <<>>
    /\ parents[last.self] = last.arg
    /\ \A q \in Range(last.arg) : Count(last.self, children[q]) = 2

-----------------------------------------------------------------------------
(* Claims checked under SpecTree *)

\* C4: every list find_extended_family(p) may return holds exactly the
\* living persons among find_immediate_family(p), the siblings of p's
\* parents and the children of those siblings, so never a deceased one;
\* find_immediate_family(p) holds all of p's parents, siblings, spouse and
\* children, the deceased included.
ExtendedFamilyIsLivingRelatives ==
    \A p \in People :
        /\ {Range(fam) : fam \in find_immediate_family(p)} = {ImmediateRelatives(p)}
        /\ {<<Range(ext), Deceased(Range(ext))>> : ext \in find_extended_family(p)}
                = {<<Living(ImmediateRelatives(p) \cup AuntsUncles(p) \cup CousinsOf(p)), {}>>}

\* C4 witness: p has a spouse, a deceased parent, a deceased aunt or uncle
\* and a living cousin; the immediate family keeps the deceased parent, the
\* extended family keeps the cousin and nobody deceased.
ExtendedFamilyDropsDeceased ==
    \E p \in People :
        /\ spouse[p] # None
        /\ Deceased(ParentsOf(p)) # {}
        /\ Deceased(AuntsUncles(p) \ (ImmediateRelatives(p) \cup {p})) # {}
        /\ \A fam \in find_immediate_family(p) : Deceased(Range(fam)) # {}
        /\ \E c \in Living(CousinsOf(p) \ (ImmediateRelatives(p) \cup {p})) :
                \A ext \in find_extended_family(p) :
                    c \in Range(ext) /\ Deceased(Range(ext)) = {}

\* C10 (as claimed): on a well-formed graph no list find_cousins(p) may
\* return holds p or a sibling of p.
CousinsExcludeSelfAndSiblings ==
    WellFormed
        => \A p \in People : \A cousins \in find_cousins(p) :
                /\ p \notin Range(cousins)
                /\ \A sibs \in find_siblings(p) : Range(cousins) \cap Range(sibs) = {}

\* C10 (amended): on a well-formed graph in which no child of one sibling
\* shares a parent with a child of the other, no list find_cousins(p) may
\* return holds p or a sibling of p.
CousinsOfUnrelatedBranchesExcludeSelfAndSiblings ==
    (WellFormed /\ SiblingsChildrenUnrelated)
        => \A p \in People : \A cousins \in find_cousins(p) :
                /\ p \notin Range(cousins)
                /\ \A sibs \in find_siblings(p) : Range(cousins) \cap Range(sibs) = {}

\* C10 witness: such a graph where find_cousins(p) returns one cousin, who
\* is neither p, nor a parent of p, nor a sibling of p.
CousinFound ==
    /\ WellFormed
    /\ SiblingsChildrenUnrelated
    /\ \E p \in People : \E c \in People \ ({p} \cup ParentsOf(p) \cup SiblingsOf(p)) :
            find_cousins(p) = {<<c>>}

-----------------------------------------------------------------------------
(* Claims checked under SpecSeed *)

Seeded == pc \in {"L194", "menu"}

\* C3 (as claimed): on the seed registry calculate_children_statistics
\* reports 2 children for Cornelia and for Otto, 0 for everyone else, and
\* an average of 4/8 = 0.5.
SeedChildrenStatisticsAsClaimed ==
    (pc = "menu" /\ last.op = "calculate_children_statistics")
        => /\ \A i \in DOMAIN result[1] :
                result[1][i].v =
                    IF result[1][i].k \in {name(cornelia), name(otto)} THEN 2 ELSE 0
           /\ result[2] # 0
           /\ result[2][1] = 4 /\ result[2][2] = 8

\* C3 (amended): it reports 2 children for Cornelia and for Otto, 1 for
\* each of Anna, Raj, Maria and Hans (set_parents listed Cornelia and Otto
\* as their children), 0 for Lucas and Emma, and an average of 8/8 = 1.0.
SeedChildrenStatistics ==
    (pc = "menu" /\ last.op = "calculate_children_statistics")
        => /\ result[1] =
                << [k |-> name(cornelia), v |-> 2], [k |-> name(otto), v |-> 2],
                   [k |-> name(anna), v |-> 1], [k |-> name(raj), v |-> 1],
                   [k |-> name(maria), v |-> 1], [k |-> name(hans), v |-> 1],
                   [k |-> name(child1), v |-> 0], [k |-> name(child2), v |-> 0] >>
           /\ result[2] = TrueDiv(8, 8)

\* C3 witness: the statistics were asked for on the loaded seed registry.
SeedChildrenStatisticsAsked ==
    /\ pc = "menu"
    /\ last.op = "calculate_children_statistics"
    /\ Len(result[1]) = 8

\* C6: get_person of a name that is no key of the registry returns None,
\* get_member_details of it returns "Person not found.", and neither
\* changes the registry or any person.
UnknownNameNotFound ==
    [][(last'.op \in {"get_person", "get_member_details"}
            /\ last'.key \notin DictKeys(members))
        => /\ UNCHANGED <<cast, parents, children, spouse, members>>
           /\ last'.op = "get_person" => result' = None
           /\ last'.op = "get_member_details" => result' = "Person not found."]_vars

\* C6 witness: the loaded seed registry was asked for the details of a
\* name it does not hold.
UnknownNameAsked ==
    /\ pc = "menu"
    /\ last.op = "get_member_details"
    /\ last.key \notin DictKeys(members)
    /\ Len(members) = 8
    /\ result = "Person not found."

\* C7: a relationship query or a statistics query leaves every person's
\* parents, children and spouse, and the registry, as they were.
QueriesReadOnly ==
    [][last'.op \in (QueryOps \ {"get_person", "get_member_details"})
        => UNCHANGED <<parents, children, spouse, members>>]_vars

\* C7 witness: find_immediate_family(cornelia) has returned her five
\* relatives and the links are the seed's.
QueryAnswered ==
    /\ pc = "menu"
    /\ last.op = "find_immediate_family"
    /\ last.self = cornelia
    /\ Range(result) = {anna, raj, otto, child1, child2}
    /\ parents[cornelia] = <<anna, raj>>
    /\ children[cornelia] = <<child1, child2>>

\* C9: once the seed's links are set, a occurs in b.parents as often as b
\* occurs in a.children, at most once, and a.spouse = b exactly when
\* b.spouse = a.
SeedLinksConsistent ==
    Seeded
        => \A a, b \in People :
                /\ Count(a, parents[b]) = Count(b, children[a])
                /\ Count(a, parents[b]) <= 1
                /\ (spouse[a] = b) <=> (spouse[b] = a)

\* C9 witness: the seed's links are set.
SeedLinksSet ==
    /\ Seeded
    /\ parents[cornelia] = <<anna, raj>>
    /\ children[anna] = <<cornelia>>
    /\ parents[child1] = <<cornelia, otto>>
    /\ children[otto] = <<child1, child2>>
    /\ spouse[otto] = cornelia

====
